---------------------------- MODULE Spec2Model ----------------------------
(***************************************************************************)
(* Model of the S&P 500 momentum backtesting pipeline                      *)
(*   scripts/main.py, scripts/preprocessing.py, scripts/create_signal.py,  *)
(*   scripts/backtester.py.                                                *)
(*                                                                         *)
(* A data frame is a sequence of rows in frame order.  A float is an exact *)
(* rational <<n, d>> with d > 0, kept in lowest terms; NaN is <<0, 0>>.    *)
(* Prices are integers in units of 0.1 dollar.  A date is the integer      *)
(* yyyymmdd of a month end.                                                *)
(***************************************************************************)
EXTENDS Integers, Sequences, FiniteSets, TLC

VARIABLES pc, prices_exists, sp500_exists, prices, sp500, series, report, log

vars == <<pc, prices_exists, sp500_exists, prices, sp500, series, report, log>>

---------------------------------------------------------------------------
(* Bounds of the model *)

\* months of the price history fed to preprocess_prices
NumMonths == 3
\* largest monthly cross-section fed to create_signal
MaxN == 21

(* Program constants *)

\* price filter 0.1 $ .. 10000 $, in units of 0.1 $
PriceLo == 1
PriceHi == 100000
\* crisis window 2008-01-01 .. 2009-12-31
CrisisStart == 20080101
CrisisEnd == 20091231
\* size of the portfolio, window of the rolling mean, benchmark stake
TopN == 20
Window == 12
MinPeriods == 1
Sp500Signal == 20

\* np.nan in the integer price column
NaNPrice == -1

\* month-end dates the model draws its records from
MonthEnds == <<20071231, 20091231, 20100131, 20100228, 20100331>>

Tickers == {1, 2}

---------------------------------------------------------------------------
(* Exact arithmetic standing for float64 *)

NaN == <<0, 0>>

IsNaN(r) == r[2] = 0

Abs(x) == IF x < 0 THEN -x ELSE x

RECURSIVE Gcd(_, _)
Gcd(a, b) == IF b = 0 THEN a ELSE Gcd(b, a % b)

Norm(r) ==
    IF r[2] = 0 THEN NaN
    ELSE LET s == IF r[2] < 0 THEN -1 ELSE 1
             g == Gcd(Abs(r[1]), Abs(r[2]))
         IN  <<(s * r[1]) \div g, (s * r[2]) \div g>>

Rat(n) == <<n, 1>>

RatAdd(a, b) ==
    IF IsNaN(a) \/ IsNaN(b) THEN NaN
    ELSE Norm(<<a[1] * b[2] + b[1] * a[2], a[2] * b[2]>>)

RatSub(a, b) ==
    IF IsNaN(a) \/ IsNaN(b) THEN NaN
    ELSE Norm(<<a[1] * b[2] - b[1] * a[2], a[2] * b[2]>>)

RatMulInt(k, a) == IF IsNaN(a) THEN NaN ELSE Norm(<<k * a[1], a[2]>>)

\* x / k; 0 / 0 is NaN
RatDivInt(a, k) == IF IsNaN(a) \/ k = 0 THEN NaN ELSE Norm(<<a[1], a[2] * k>>)

\* comparisons with NaN are False
RatLt(a, b) == ~IsNaN(a) /\ ~IsNaN(b) /\ a[1] * b[2] < b[1] * a[2]

RatLe(a, b) == ~IsNaN(a) /\ ~IsNaN(b) /\ a[1] * b[2] <= b[1] * a[2]

RatEq(a, b) == ~IsNaN(a) /\ ~IsNaN(b) /\ a[1] * b[2] = b[1] * a[2]

Max(S) == CHOOSE x \in S : \A y \in S : y <= x

Min(S) == CHOOSE x \in S : \A y \in S : x <= y

---------------------------------------------------------------------------
(* Frames *)

Row(d, t, p) ==
    [date |-> d, ticker |-> t, price |-> p, past |-> NaN, future |-> NaN,
     avg |-> NaN, signal |-> FALSE, pnl |-> NaN]

FrameDates(tbl) == {tbl[i].date : i \in DOMAIN tbl}

FrameTickers(tbl) == {tbl[i].ticker : i \in DOMAIN tbl}

MonthIdx(d) == CHOOSE i \in DOMAIN MonthEnds : MonthEnds[i] = d

\* index order of the (date, ticker) MultiIndex
KeyLess(a, b) == a.date < b.date \/ (a.date = b.date /\ a.ticker < b.ticker)

RECURSIVE Insert(_, _)
Insert(s, r) ==
    IF s = <<>> THEN <<r>>
    ELSE IF KeyLess(r, Head(s)) THEN <<r>> \o s
    ELSE <<Head(s)>> \o Insert(Tail(s), r)

RECURSIVE SortIndex(_)
SortIndex(tbl) ==
    IF tbl = <<>> THEN <<>> ELSE Insert(SortIndex(Tail(tbl)), Head(tbl))

\* previous row of the same ticker in frame order, 0 when none
PrevSame(tbl, i) ==
    LET S == {j \in 1..(i - 1) : tbl[j].ticker = tbl[i].ticker}
    IN  IF S = {} THEN 0 ELSE Max(S)

---------------------------------------------------------------------------
(* preprocess_prices *)

\* groupby('ticker').resample('ME', level=0).last(): per ticker, one row for
\* every month between its first and its last observation; a month without
\* an observation holds NaN.  The result is ordered by ticker, then date.
RECURSIVE ResampleFrom(_, _, _)
ResampleFrom(tbl, t, m) ==
    LET mine == {i \in DOMAIN tbl : tbl[i].ticker = t}
        ms   == {MonthIdx(tbl[i].date) : i \in mine}
    IN  IF mine = {} \/ m > Max(ms) THEN <<>>
        ELSE LET here == {i \in mine : MonthIdx(tbl[i].date) = m}
                 p    == IF here = {} THEN NaNPrice ELSE tbl[Max(here)].price
             IN  (IF m < Min(ms) THEN <<>> ELSE <<Row(MonthEnds[m], t, p)>>)
                 \o ResampleFrom(tbl, t, m + 1)

RECURSIVE ResampleTickers(_, _)
ResampleTickers(tbl, ts) ==
    IF ts = {} THEN <<>>
    ELSE LET t == Min(ts)
         IN  ResampleFrom(tbl, t, 1) \o ResampleTickers(tbl, ts \ {t})

Resample(tbl) == ResampleTickers(tbl, FrameTickers(tbl))

PriceInRange(r) ==
    r.price # NaNPrice /\ r.price >= PriceLo /\ r.price <= PriceHi

FilterPriceOutliers(tbl) == SelectSeq(tbl, PriceInRange)

\* price.pct_change() without the groupby: the previous row of the frame
PctChangeUngrouped(tbl) ==
    [i \in DOMAIN tbl |->
        IF i = 1 THEN NaN
        ELSE Norm(<<tbl[i].price - tbl[i - 1].price, tbl[i - 1].price>>)]

\* groupby('ticker')['price'].pct_change(), aligned with the frame
PctChange(tbl) ==
    [i \in DOMAIN tbl |->
        LET j == PrevSame(tbl, i)
        IN  IF j = 0 \/ tbl[i].price = NaNPrice \/ tbl[j].price = NaNPrice
            THEN NaN
            ELSE Norm(<<tbl[i].price - tbl[j].price, tbl[j].price>>)]

\* Series.shift(-1): a shift of the whole column, in frame order
ShiftMinus1(col) ==
    [i \in DOMAIN col |-> IF i + 1 \in DOMAIN col THEN col[i + 1] ELSE NaN]

MonthlyPastReturn(tbl) ==
    [i \in DOMAIN tbl |-> [tbl[i] EXCEPT !.past = PctChange(tbl)[i]]]

MonthlyFutureReturn(tbl) ==
    [i \in DOMAIN tbl |->
        [tbl[i] EXCEPT !.future = ShiftMinus1(PctChange(tbl))[i]]]

CrisisMask(d) == d >= CrisisStart /\ d <= CrisisEnd

\* only (x > 1)
IsOutlierGainOnly(x) == RatLt(<<1, 1>>, x)

\* (x > 1) | (x < -0.5)
IsOutlier(x) == RatLt(Rat(1), x) \/ RatLt(x, <<-1, 2>>)

\* the loop body without the crisis mask
HandleTickerOutliersNoMask(tbl, t) ==
    [i \in DOMAIN tbl |->
        IF tbl[i].ticker = t
        THEN [tbl[i] EXCEPT
                 !.past   = IF RatLt(<<1, 1>>, @) \/ RatLt(@, <<-1, 2>>) THEN NaN ELSE @,
                 !.future = IF RatLt(<<1, 1>>, @) \/ RatLt(@, <<-1, 2>>) THEN NaN ELSE @]
        ELSE tbl[i]]

\* one iteration of the loop over tickers
HandleTickerOutliers(tbl, t) ==
    [i \in DOMAIN tbl |->
        IF tbl[i].ticker = t /\ ~CrisisMask(tbl[i].date)
        THEN [tbl[i] EXCEPT
                 !.past   = IF IsOutlier(@) THEN NaN ELSE @,
                 !.future = IF IsOutlier(@) THEN NaN ELSE @]
        ELSE tbl[i]]

RECURSIVE HandleOutliersOver(_, _)
HandleOutliersOver(tbl, ts) ==
    IF ts = {} THEN tbl
    ELSE LET t == Min(ts)
         IN  HandleOutliersOver(HandleTickerOutliers(tbl, t), ts \ {t})

HandleReturnOutliers(tbl) == HandleOutliersOver(tbl, FrameTickers(tbl))

\* groupby('ticker')[col].ffill()
FfillPrice(tbl) ==
    [i \in DOMAIN tbl |->
        IF tbl[i].price # NaNPrice THEN tbl[i]
        ELSE LET S == {j \in 1..(i - 1) : /\ tbl[j].ticker = tbl[i].ticker
                                          /\ tbl[j].price # NaNPrice}
             IN  IF S = {} THEN tbl[i]
                 ELSE [tbl[i] EXCEPT !.price = tbl[Max(S)].price]]

\* ffill() without the groupby: the last valid value of any ticker
FfillPastUngrouped(tbl) ==
    [i \in DOMAIN tbl |->
        IF ~IsNaN(tbl[i].past) THEN tbl[i]
        ELSE LET S == {j \in 1..(i - 1) : ~IsNaN(tbl[j].past)}
             IN  IF S = {} THEN tbl[i]
                 ELSE [tbl[i] EXCEPT !.past = tbl[Max(S)].past]]

FfillPast(tbl) ==
    [i \in DOMAIN tbl |->
        IF ~IsNaN(tbl[i].past) THEN tbl[i]
        ELSE LET S == {j \in 1..(i - 1) : /\ tbl[j].ticker = tbl[i].ticker
                                          /\ ~IsNaN(tbl[j].past)}
             IN  IF S = {} THEN tbl[i]
                 ELSE [tbl[i] EXCEPT !.past = tbl[Max(S)].past]]

FillMissing(tbl) == FfillPast(FfillPrice(tbl))

HasFuture(r) == ~IsNaN(r.future)

NoMissing(r) == r.price # NaNPrice /\ ~IsNaN(r.past) /\ ~IsNaN(r.future)

\* dropna(subset=['monthly_future_return']) then dropna()
DropMissing(tbl) == SelectSeq(SelectSeq(tbl, HasFuture), NoMissing)

---------------------------------------------------------------------------
(* preprocess_sp500 *)

Sp500Row(d, c) == [date |-> d, adj_close |-> c, monthly_return |-> NaN]

\* resample('ME').last() of an index with an observation in every month,
\* then adj_close.pct_change()
PreprocessSp500(tbl) ==
    [i \in DOMAIN tbl |->
        [tbl[i] EXCEPT !.monthly_return =
            IF i = 1 THEN NaN
            ELSE Norm(<<tbl[i].adj_close - tbl[i - 1].adj_close,
                        tbl[i - 1].adj_close>>)]]

---------------------------------------------------------------------------
(* create_signal *)

RECURSIVE SumPast(_, _)
SumPast(tbl, S) ==
    IF S = {} THEN Rat(0)
    ELSE LET i == Min(S) IN RatAdd(tbl[i].past, SumPast(tbl, S \ {i}))

\* groupby('ticker')['monthly_past_return'].rolling(window=12,
\* min_periods=1).mean() at row i
RollingMean(tbl, i) ==
    LET mine  == {j \in 1..i : tbl[j].ticker = tbl[i].ticker}
        win   == {j \in mine : Cardinality({k \in mine : k > j}) < Window}
        valid == {j \in win : ~IsNaN(tbl[j].past)}
    IN  IF Cardinality(valid) < MinPeriods THEN NaN
        ELSE RatDivInt(SumPast(tbl, valid), Cardinality(valid))

AverageReturn1y(tbl) ==
    [i \in DOMAIN tbl |-> [tbl[i] EXCEPT !.avg = RollingMean(tbl, i)]]

\* Series.nsmallest(n).index
Nsmallest(tbl, G, n) ==
    {i \in G :
        /\ ~IsNaN(tbl[i].avg)
        /\ Cardinality({j \in G : RatLt(tbl[j].avg, tbl[i].avg)})
             + Cardinality({j \in G : j < i /\ RatEq(tbl[j].avg, tbl[i].avg)}) < n}

\* Series.nlargest(n).index over the rows G of one date: the n largest
\* values, the earlier row first among equal values (keep='first')
Nlargest(tbl, G, n) ==
    {i \in G :
        /\ ~IsNaN(tbl[i].avg)
        /\ Cardinality({j \in G : RatLt(tbl[i].avg, tbl[j].avg)})
             + Cardinality({j \in G : j < i /\ RatEq(tbl[j].avg, tbl[i].avg)}) < n}

\* the else branch without the line that sets the top 20
GetTop20SignalUnset(tbl, i) ==
    LET G == {j \in DOMAIN tbl : tbl[j].date = tbl[i].date}
    IN  Cardinality(G) < TopN

\* get_top_20_signal on the group of row i: the signal of row i
GetTop20Signal(tbl, i) ==
    LET G == {j \in DOMAIN tbl : tbl[j].date = tbl[i].date}
    IN  IF Cardinality(G) < TopN THEN TRUE
        ELSE i \in Nlargest(tbl, G, TopN)

\* the frame create_signal returns; groupby('date').apply over no group gives
\* an empty frame
CreateSignal(tbl) ==
    LET t2 == AverageReturn1y(tbl)
    IN  [i \in DOMAIN t2 |-> [t2[i] EXCEPT !.signal = GetTop20Signal(t2, i)]]

---------------------------------------------------------------------------
(* backtest *)

\* signal * monthly_future_return
Pnl(tbl) ==
    [i \in DOMAIN tbl |->
        [tbl[i] EXCEPT !.pnl = RatMulInt(IF tbl[i].signal THEN 1 ELSE 0,
                                         tbl[i].future)]]

\* sum() of a group, NaN skipped
RECURSIVE SumPnl(_, _)
SumPnl(tbl, S) ==
    IF S = {} THEN Rat(0)
    ELSE LET i == Min(S)
             r == SumPnl(tbl, S \ {i})
         IN  IF IsNaN(tbl[i].pnl) THEN r ELSE RatAdd(tbl[i].pnl, r)

\* groupby('date')['pnl'].sum() without the signal factor
StrategyPnlAllRows(tbl) ==
    [d \in FrameDates(tbl) |->
        SumPnl([i \in DOMAIN tbl |-> [tbl[i] EXCEPT !.pnl = tbl[i].future]],
               {i \in DOMAIN tbl : tbl[i].date = d})]

\* groupby('date')['pnl'].sum()
StrategyPnlSeries(tbl) ==
    [d \in FrameDates(tbl) |->
        SumPnl(tbl, {i \in DOMAIN tbl : tbl[i].date = d})]

\* groupby('date')['signal'].sum()
SignalSum(tbl) ==
    [d \in FrameDates(tbl) |->
        Cardinality({i \in DOMAIN tbl : tbl[i].date = d /\ tbl[i].signal})]

StrategyReturns(tbl) ==
    [d \in FrameDates(tbl) |->
        RatDivInt(StrategyPnlSeries(tbl)[d], SignalSum(tbl)[d])]

\* sp500_df['monthly_return'] without dropna()
BenchmarkReturnsKeepNa(sp) ==
    [d \in {sp[i].date : i \in DOMAIN sp} |->
        sp[CHOOSE i \in DOMAIN sp : sp[i].date = d].monthly_return]

\* sp500_df['monthly_return'].dropna()
BenchmarkReturns(sp) ==
    [d \in {sp[i].date : i \in {j \in DOMAIN sp : ~IsNaN(sp[j].monthly_return)}} |->
        sp[CHOOSE i \in DOMAIN sp : sp[i].date = d].monthly_return]

BenchmarkPnlSeries(sp) ==
    [d \in DOMAIN BenchmarkReturns(sp) |->
        RatMulInt(Sp500Signal, BenchmarkReturns(sp)[d])]

\* strategy_returns.index.intersection(benchmark_returns.index)
CommonDates(ser) == DOMAIN ser.strategy_returns \cap DOMAIN ser.benchmark_returns

Restrict(f, D) == [d \in D |-> f[d]]

\* Series.cumsum() over the dates in ascending order; a NaN entry stays NaN
\* and is skipped by the running sum
RECURSIVE CumSumFrom(_, _, _)
CumSumFrom(f, D, acc) ==
    IF D = {} THEN <<>>
    ELSE LET d    == Min(D)
             a    == IF IsNaN(f[d]) THEN acc ELSE RatAdd(acc, f[d])
             rest == CumSumFrom(f, D \ {d}, a)
         IN  [e \in D |-> IF e = d THEN (IF IsNaN(f[d]) THEN NaN ELSE a)
                          ELSE rest[e]]

CumSum(f) == CumSumFrom(f, DOMAIN f, Rat(0))

\* Series.sum(), NaN skipped
RECURSIVE SumOver(_, _)
SumOver(f, D) ==
    IF D = {} THEN Rat(0)
    ELSE LET d == Min(D)
             r == SumOver(f, D \ {d})
         IN  IF IsNaN(f[d]) THEN r ELSE RatAdd(f[d], r)

SeriesSum(f) == SumOver(f, DOMAIN f)

\* lines 29-59: the aligned series and the figures of results.txt, as the
\* values the f-strings format
Report(ser, D) ==
    LET sr == Restrict(ser.strategy_returns, D)
        sp == Restrict(ser.strategy_pnl, D)
        br == Restrict(ser.benchmark_returns, D)
        bp == Restrict(ser.benchmark_pnl, D)
    IN  [written |-> TRUE,
         strategy_returns |-> sr,
         strategy_pnl |-> sp,
         benchmark_returns |-> br,
         benchmark_pnl |-> bp,
         strategy_cumulative_pnl |-> CumSum(sp),
         benchmark_cumulative_pnl |-> CumSum(bp),
         strategy_total_return |-> SeriesSum(sr),
         benchmark_total_return |-> SeriesSum(br),
         strategy_total_pnl |-> CumSum(sp)[Max(D)],
         benchmark_total_pnl |-> CumSum(bp)[Max(D)],
         outperformance |-> RatSub(SeriesSum(sr), SeriesSum(br))]

---------------------------------------------------------------------------
(* Inputs *)

\* the observations of a prices file: at most one per ticker and month
RECURSIVE ObsRows(_, _, _)
ObsRows(f, t, m) ==
    IF t > Max(Tickers) THEN <<>>
    ELSE IF m > NumMonths THEN ObsRows(f, t + 1, 1)
    ELSE (IF f[t][m] = NaNPrice THEN <<>> ELSE <<Row(MonthEnds[m], t, f[t][m])>>)
         \o ObsRows(f, t, m + 1)

\* prices files read by main: per cell a price inside the filter or no
\* observation
MainCells == {2, 10, NaNPrice}

\* prices files fed to preprocess_prices: per cell a price below the filter
\* (0), inside it, above it (100001), or no observation
PrepCells(t) ==
    IF t = 1 THEN {0, 2, 4, 10, NaNPrice} ELSE {2, 4, 10, 100001, NaNPrice}

\* benchmark files: an observation in every month from month a on
MainSp500(a) ==
    [i \in 1..(NumMonths - a + 1) |->
        Sp500Row(MonthEnds[a + i - 1], 10 + ((a + i) % 2))]

\* a preprocessed frame of one or two months: tickers 1..n1 in the first
\* month, 1..n2 in the second; the first k tickers of a month carry the
\* trailing return a/2, the others b/2
TailRows(d, n, k, a, b) ==
    [i \in 1..n |->
        [Row(d, i, 10) EXCEPT
            !.past   = Norm(<<IF i <= k THEN a ELSE b, 2>>),
            !.future = Norm(<<((i + MonthIdx(d)) % 3) - 1, 2>>)]]

TailPrices(n1, k, ab, n2) ==
    TailRows(MonthEnds[2], n1, k, ab[1], ab[2])
        \o TailRows(MonthEnds[3], n2, n2 \div 2, ab[2], ab[1])

\* preprocessed benchmark frames: months ab[1]..ab[2], the first return
\* missing
TailSp500(ab) ==
    [i \in 1..(ab[2] - ab[1] + 1) |->
        [date |-> MonthEnds[ab[1] + i - 1], adj_close |-> 10,
         monthly_return |-> IF i = 1 THEN NaN
                            ELSE Norm(<<((ab[1] + i) % 3) - 1, 50>>)]]

NoSeries == [strategy_pnl |-> <<>>, strategy_returns |-> <<>>,
             benchmark_returns |-> <<>>, benchmark_pnl |-> <<>>]

NoReport == [written |-> FALSE]

---------------------------------------------------------------------------
(* main: the existence checks, the load and the call of preprocessing *)

CheckPricesFile ==
    /\ pc = "check_prices"
    /\ pc' = IF prices_exists THEN "check_sp500" ELSE "aborted"
    /\ UNCHANGED <<prices_exists, sp500_exists, prices, sp500, series, report, log>>

\* the second check without its return
CheckSp500FallThrough == "load"

CheckSp500Target == IF sp500_exists THEN "load" ELSE "aborted"

CheckSp500File ==
    /\ pc = "check_sp500"
    /\ pc' = CheckSp500Target
    /\ UNCHANGED <<prices_exists, sp500_exists, prices, sp500, series, report, log>>

\* memory_reducer(prices_path), memory_reducer(sp500_path)
LoadData ==
    /\ pc = "load"
    /\ log' = Append(log, "load")
    /\ \E f \in [Tickers -> [1..NumMonths -> MainCells]] :
          prices' = ObsRows(f, 1, 1)
    /\ \E a \in 1..2 : sp500' = MainSp500(a)
    /\ pc' = "preprocessing"
    /\ UNCHANGED <<prices_exists, sp500_exists, series, report>>

\* preprocessing(): identify_outliers only writes outliers.txt
EnterPreprocessing ==
    /\ pc = "preprocessing"
    /\ log' = Append(log, "preprocessing")
    /\ pc' = "resample"
    /\ UNCHANGED <<prices_exists, sp500_exists, prices, sp500, series, report>>

---------------------------------------------------------------------------
(* Steps of preprocess_prices *)

ResampleStep ==
    /\ pc = "resample"
    /\ prices' = Resample(prices)
    /\ pc' = "filter"
    /\ UNCHANGED <<prices_exists, sp500_exists, sp500, series, report, log>>

FilterStep ==
    /\ pc = "filter"
    /\ prices' = FilterPriceOutliers(prices)
    /\ pc' = "sort"
    /\ UNCHANGED <<prices_exists, sp500_exists, sp500, series, report, log>>

SortStep ==
    /\ pc = "sort"
    /\ prices' = SortIndex(prices)
    /\ pc' = "past_return"
    /\ UNCHANGED <<prices_exists, sp500_exists, sp500, series, report, log>>

PastReturnStep ==
    /\ pc = "past_return"
    /\ prices' = MonthlyPastReturn(prices)
    /\ pc' = "future_return"
    /\ UNCHANGED <<prices_exists, sp500_exists, sp500, series, report, log>>

FutureReturnStep ==
    /\ pc = "future_return"
    /\ prices' = MonthlyFutureReturn(prices)
    /\ pc' = "outliers"
    /\ UNCHANGED <<prices_exists, sp500_exists, sp500, series, report, log>>

OutlierStep ==
    /\ pc = "outliers"
    /\ prices' = HandleReturnOutliers(prices)
    /\ pc' = "ffill"
    /\ UNCHANGED <<prices_exists, sp500_exists, sp500, series, report, log>>

FfillStep ==
    /\ pc = "ffill"
    /\ prices' = FillMissing(prices)
    /\ pc' = "dropna"
    /\ UNCHANGED <<prices_exists, sp500_exists, sp500, series, report, log>>

DropnaStep ==
    /\ pc = "dropna"
    /\ prices' = DropMissing(prices)
    /\ pc' = "preprocess_sp500"
    /\ UNCHANGED <<prices_exists, sp500_exists, sp500, series, report, log>>

NextPrep ==
    \/ ResampleStep
    \/ FilterStep
    \/ SortStep
    \/ PastReturnStep
    \/ FutureReturnStep
    \/ OutlierStep
    \/ FfillStep
    \/ DropnaStep

InitPrep ==
    /\ pc = "resample"
    /\ prices_exists = TRUE
    /\ sp500_exists = TRUE
    /\ \E f1 \in [1..NumMonths -> PrepCells(1)] :
       \E f2 \in [1..NumMonths -> PrepCells(2)] :
          prices = ObsRows(<<f1, f2>>, 1, 1)
    /\ sp500 = <<>>
    /\ series = NoSeries
    /\ report = NoReport
    /\ log = <<"load", "preprocessing">>

SpecPrep == InitPrep /\ [][NextPrep]_vars

---------------------------------------------------------------------------
(* preprocess_sp500, create_signal and backtest *)

PreprocessSp500Step ==
    /\ pc = "preprocess_sp500"
    /\ sp500' = PreprocessSp500(sp500)
    /\ pc' = "signal"
    /\ UNCHANGED <<prices_exists, sp500_exists, prices, series, report, log>>

CreateSignalStep ==
    /\ pc = "signal"
    /\ log' = Append(log, "create_signal")
    /\ prices' = CreateSignal(prices)
    /\ pc' = "backtest"
    /\ UNCHANGED <<prices_exists, sp500_exists, sp500, series, report>>

\* backtest lines 14-27; an empty frame has no 'signal' column (KeyError)
BacktestSeriesStep ==
    /\ pc = "backtest"
    /\ log' = Append(log, "backtest")
    /\ IF prices = <<>>
       THEN /\ pc' = "raised"
            /\ UNCHANGED <<prices, series>>
       ELSE /\ prices' = Pnl(prices)
            /\ series' = [strategy_pnl |-> StrategyPnlSeries(Pnl(prices)),
                          strategy_returns |-> StrategyReturns(Pnl(prices)),
                          benchmark_returns |-> BenchmarkReturns(sp500),
                          benchmark_pnl |-> BenchmarkPnlSeries(sp500)]
            /\ pc' = "align"
    /\ UNCHANGED <<prices_exists, sp500_exists, sp500, report>>

\* backtest lines 29-59; iloc[-1] of an empty series raises IndexError
\* before results.txt is opened
BacktestAlignStep ==
    /\ pc = "align"
    /\ series' = [strategy_pnl |-> Restrict(series.strategy_pnl, CommonDates(series)),
                  strategy_returns |-> Restrict(series.strategy_returns, CommonDates(series)),
                  benchmark_returns |-> Restrict(series.benchmark_returns, CommonDates(series)),
                  benchmark_pnl |-> Restrict(series.benchmark_pnl, CommonDates(series))]
    /\ IF CommonDates(series) = {}
       THEN pc' = "raised" /\ UNCHANGED report
       ELSE pc' = "done" /\ report' = Report(series, CommonDates(series))
    /\ UNCHANGED <<prices_exists, sp500_exists, prices, sp500, log>>

NextTail ==
    \/ CreateSignalStep
    \/ BacktestSeriesStep
    \/ BacktestAlignStep

InitTail ==
    /\ pc = "signal"
    /\ prices_exists = TRUE
    /\ sp500_exists = TRUE
    /\ \E n1 \in 1..MaxN : \E k \in {1, TopN - 1, TopN} :
       \E ab \in {<<0, 1>>, <<1, 0>>, <<1, 1>>, <<-1, 1>>} :
       \E n2 \in {0, 1, TopN, MaxN} :
          prices = TailPrices(n1, k, ab, n2)
    /\ \E ab \in {<<1, 2>>, <<1, 4>>, <<2, 4>>, <<3, 4>>} : sp500 = TailSp500(ab)
    /\ series = NoSeries
    /\ report = NoReport
    /\ log = <<"load", "preprocessing">>

SpecTail == InitTail /\ [][NextTail]_vars

Next ==
    \/ CheckPricesFile
    \/ CheckSp500File
    \/ LoadData
    \/ EnterPreprocessing
    \/ ResampleStep
    \/ FilterStep
    \/ SortStep
    \/ PastReturnStep
    \/ FutureReturnStep
    \/ OutlierStep
    \/ FfillStep
    \/ DropnaStep
    \/ PreprocessSp500Step
    \/ CreateSignalStep
    \/ BacktestSeriesStep
    \/ BacktestAlignStep

Init ==
    /\ pc = "check_prices"
    /\ prices_exists \in BOOLEAN
    /\ sp500_exists \in BOOLEAN
    /\ prices = <<>>
    /\ sp500 = <<>>
    /\ series = NoSeries
    /\ report = NoReport
    /\ log = <<>>

Spec == Init /\ [][Next]_vars

---------------------------------------------------------------------------
(* Properties of preprocess_prices, checked under SpecPrep *)

InWindow(d) == d >= 20080101 /\ d <= 20091231

InRangeOrMissing(x) == IsNaN(x) \/ (RatLe(<<-1, 2>>, x) /\ RatLe(x, <<1, 1>>))

OutOfRange(x) == ~IsNaN(x) /\ ~InRangeOrMissing(x)

TickerSeries(tbl, t) == SelectSeq(tbl, LAMBDA r : r.ticker = t)

\* x = b / a - 1, by cross multiplication
IsReturnOf(x, a, b) == ~IsNaN(x) /\ x[1] * a = (b - a) * x[2]

\* C1: once the forward returns are computed, the forward_return of a
\* ticker's record t is that ticker's trailing_return at its record t+1
\* (price[t+1]/price[t] - 1), and it is missing at the ticker's last record.
C1_ForwardIsOwnNextTrailing ==
    pc = "outliers" =>
        \A t \in FrameTickers(prices) :
            LET s == TickerSeries(prices, t)
            IN  \A k \in DOMAIN s :
                    IF k = Len(s) THEN IsNaN(s[k].future)
                    ELSE /\ IsReturnOf(s[k].future, s[k].price, s[k + 1].price)
                         /\ RatEq(s[k].future, s[k + 1].past)

\* C2 as claimed: in the returned table every record outside the crisis
\* window has trailing_return and forward_return within [-0.5, 1] or missing.
C2_ReturnedWithinBounds ==
    pc = "preprocess_sp500" =>
        \A i \in DOMAIN prices :
            ~InWindow(prices[i].date) =>
                /\ InRangeOrMissing(prices[i].past)
                /\ InRangeOrMissing(prices[i].future)

\* C2 as amended: right after the outlier loop every record outside the
\* crisis window has both returns within [-0.5, 1] or missing; from then on
\* its forward_return stays so; the forward fill gives such a record either
\* a trailing_return within [-0.5, 1] or the trailing_return of an earlier
\* crisis-window record of the same ticker; and the row drop changes no value.
C2_SuppressedWithinBounds ==
    /\ [](pc = "ffill" =>
            \A i \in DOMAIN prices :
                ~InWindow(prices[i].date) =>
                    /\ InRangeOrMissing(prices[i].past)
                    /\ InRangeOrMissing(prices[i].future))
    /\ [](pc \in {"dropna", "preprocess_sp500"} =>
            \A i \in DOMAIN prices :
                ~InWindow(prices[i].date) => InRangeOrMissing(prices[i].future))
    /\ [][pc = "ffill" =>
            \A i \in DOMAIN prices' :
                ~InWindow(prices'[i].date) =>
                    \/ InRangeOrMissing(prices'[i].past)
                    \/ \E j \in 1..(i - 1) :
                          /\ prices[j].ticker = prices'[i].ticker
                          /\ InWindow(prices[j].date)
                          /\ prices[j].past = prices'[i].past]_vars
    /\ [][pc = "dropna" =>
            \A i \in DOMAIN prices' :
                \E j \in DOMAIN prices : prices'[i] = prices[j]]_vars

\* a returned record outside the crisis window carries an out-of-range
\* trailing_return
C2_Witness ==
    /\ pc = "preprocess_sp500"
    /\ \E i \in DOMAIN prices :
          ~InWindow(prices[i].date) /\ OutOfRange(prices[i].past)

\* C4: the outlier loop leaves every record dated within
\* 2008-01-01..2009-12-31 as it was, whatever its returns; it changes only
\* the returns of records outside the window.
C4_CrisisRecordsUntouched ==
    [][pc = "outliers" =>
        /\ Len(prices') = Len(prices)
        /\ \A i \in DOMAIN prices :
              /\ prices'[i].date = prices[i].date
              /\ prices'[i].ticker = prices[i].ticker
              /\ prices'[i].price = prices[i].price
              /\ InWindow(prices[i].date) => prices'[i] = prices[i]]_vars

\* after the loop, crisis-window records still carry out-of-range returns
\* while a record outside the window lost one
C4_Witness ==
    /\ pc = "ffill"
    /\ \E i \in DOMAIN prices :
          InWindow(prices[i].date) /\ OutOfRange(prices[i].past)
    /\ \E i \in DOMAIN prices :
          InWindow(prices[i].date) /\ OutOfRange(prices[i].future)
    /\ \E i \in DOMAIN prices :
          /\ ~InWindow(prices[i].date)
          /\ PrevSame(prices, i) # 0
          /\ IsNaN(prices[i].past)

\* C5: the price filter keeps exactly the rows priced within [0.1, 10000];
\* then, in each ticker's date-sorted series of kept rows, trailing_return
\* at record t is price[t]/price[t-1] - 1 and is missing at the first record.
C5_TrailingReturn ==
    /\ [][pc = "filter" =>
            /\ \A i \in DOMAIN prices' :
                  /\ prices'[i].price >= 1 /\ prices'[i].price <= 100000
                  /\ \E j \in DOMAIN prices : prices[j] = prices'[i]
            /\ \A j \in DOMAIN prices :
                  (prices[j].price >= 1 /\ prices[j].price <= 100000) =>
                      \E i \in DOMAIN prices' : prices'[i] = prices[j]]_vars
    /\ [](pc = "future_return" =>
            \A t \in FrameTickers(prices) :
                LET s == TickerSeries(prices, t)
                IN  \A k \in DOMAIN s :
                        IF k = 1 THEN IsNaN(s[k].past)
                        ELSE /\ s[k - 1].date < s[k].date
                             /\ IsReturnOf(s[k].past, s[k - 1].price, s[k].price))

\* a ticker whose kept series skips a filtered month and has a trailing
\* return across the gap
C5_Witness ==
    /\ pc = "future_return"
    /\ \E i \in DOMAIN prices :
          LET j == PrevSame(prices, i)
          IN  /\ j # 0
              /\ MonthIdx(prices[i].date) = MonthIdx(prices[j].date) + 2
              /\ ~IsNaN(prices[i].past)
              /\ ~RatEq(prices[i].past, <<0, 1>>)

\* C6: the forward fill gives a record with a missing trailing_return the
\* most recent earlier non-missing trailing_return of the same ticker (and
\* leaves it missing when there is none), changes nothing else, and never
\* touches forward_return; the row drop returns exactly the records whose
\* price, trailing_return and forward_return are all present.
C6_FillThenDrop ==
    /\ [][pc = "ffill" =>
            /\ Len(prices') = Len(prices)
            /\ \A i \in DOMAIN prices :
                  /\ prices'[i] = [prices[i] EXCEPT !.past = prices'[i].past]
                  /\ ~IsNaN(prices[i].past) => prices'[i].past = prices[i].past
                  /\ IsNaN(prices[i].past) =>
                        \/ /\ IsNaN(prices'[i].past)
                           /\ \A j \in 1..(i - 1) :
                                 prices[j].ticker = prices[i].ticker =>
                                     IsNaN(prices[j].past)
                        \/ \E j \in 1..(i - 1) :
                              /\ prices[j].ticker = prices[i].ticker
                              /\ ~IsNaN(prices[j].past)
                              /\ prices'[i].past = prices[j].past
                              /\ \A k \in (j + 1)..(i - 1) :
                                    prices[k].ticker = prices[i].ticker =>
                                        IsNaN(prices[k].past)]_vars
    /\ [][pc = "dropna" =>
            /\ \A i \in DOMAIN prices' :
                  /\ \E j \in DOMAIN prices : prices[j] = prices'[i]
                  /\ ~IsNaN(prices'[i].past) /\ ~IsNaN(prices'[i].future)
                  /\ prices'[i].price # NaNPrice
            /\ \A j \in DOMAIN prices :
                  (~IsNaN(prices[j].past) /\ ~IsNaN(prices[j].future)
                       /\ prices[j].price # NaNPrice) =>
                      \E i \in DOMAIN prices' : prices'[i] = prices[j]
            /\ \A i \in DOMAIN prices' : \A k \in DOMAIN prices' :
                  i < k => KeyLess(prices'[i], prices'[k])]_vars

\* after the fill: a record carries a trailing_return that is not its own
\* price change, a first record still has none, and a record has no
\* forward_return
C6_Witness ==
    /\ pc = "dropna"
    /\ \E i \in DOMAIN prices :
          LET j == PrevSame(prices, i)
          IN  /\ j # 0
              /\ ~IsNaN(prices[i].past)
              /\ ~IsReturnOf(prices[i].past, prices[j].price, prices[i].price)
              /\ ~IsNaN(prices[i].future)
    /\ \E i \in DOMAIN prices : IsNaN(prices[i].past)
    /\ \E i \in DOMAIN prices : IsNaN(prices[i].future) /\ ~IsNaN(prices[i].past)

---------------------------------------------------------------------------
(* Properties of create_signal and backtest, checked under SpecTail *)

Group(d) == {i \in DOMAIN prices : prices[i].date = d}

Selected(d) == {i \in Group(d) : prices[i].signal}

RECURSIVE Total(_, _)
Total(f, S) ==
    IF S = {} THEN <<0, 1>>
    ELSE LET x == CHOOSE y \in S : TRUE
         IN  RatAdd(f[x], Total(f, S \ {x}))

FutureOf == [i \in DOMAIN prices |-> prices[i].future]

\* C3: after create_signal, a month with N < 20 records has all N selected;
\* a month with N >= 20 has exactly 20 selected, and no selected record has
\* a smaller average_return_1y than a record left out.  average_return_1y is
\* the mean of the ticker's trailing returns up to that month.
C3_TopTwentySignal ==
    pc = "backtest" =>
        /\ \A d \in FrameDates(prices) :
              /\ Cardinality(Group(d)) < 20 => Selected(d) = Group(d)
              /\ Cardinality(Group(d)) >= 20 =>
                    /\ Cardinality(Selected(d)) = 20
                    /\ \A i \in Selected(d) : \A j \in Group(d) \ Selected(d) :
                          RatLe(prices[j].avg, prices[i].avg)
        /\ \A i \in DOMAIN prices :
              LET E == {j \in 1..(i - 1) : prices[j].ticker = prices[i].ticker}
              IN  /\ E = {} => RatEq(prices[i].avg, prices[i].past)
                  /\ \A j \in E :
                        Cardinality(E) = 1 =>
                            RatEq(RatMulInt(2, prices[i].avg),
                                  RatAdd(prices[i].past, prices[j].past))

\* a month of more than 20 records where an equal average is selected for
\* one record and not for another, beside a month of fewer than 20
C3_Witness ==
    /\ pc = "backtest"
    /\ \E d \in FrameDates(prices) :
          /\ Cardinality(Group(d)) > 20
          /\ \E i \in Selected(d) : \E j \in Group(d) \ Selected(d) :
                RatEq(prices[i].avg, prices[j].avg)
          /\ \E i \in Selected(d) : \E j \in Group(d) \ Selected(d) :
                RatLt(prices[j].avg, prices[i].avg)
    /\ \E d \in FrameDates(prices) :
          Cardinality(Group(d)) < 20 /\ Cardinality(Group(d)) > 0

\* C7: per month, strategy PnL is the sum of forward_return over the records
\* with signal = true, and strategy return is that PnL divided by the number
\* of records selected.
C7_MonthlyPnlAndReturn ==
    pc = "align" =>
        /\ DOMAIN series.strategy_pnl = FrameDates(prices)
        /\ DOMAIN series.strategy_returns = FrameDates(prices)
        /\ \A d \in FrameDates(prices) :
              /\ RatEq(series.strategy_pnl[d], Total(FutureOf, Selected(d)))
              /\ Cardinality(Selected(d)) > 0 =>
                    RatEq(RatMulInt(Cardinality(Selected(d)),
                                    series.strategy_returns[d]),
                          Total(FutureOf, Selected(d)))

\* a month where 20 of more records are selected and the records left out
\* have a forward return that would change the sum
C7_Witness ==
    /\ pc = "align"
    /\ \E d \in FrameDates(prices) :
          /\ Cardinality(Selected(d)) = 20
          /\ ~RatEq(Total(FutureOf, Group(d) \ Selected(d)), <<0, 1>>)
          /\ ~RatEq(series.strategy_pnl[d], <<0, 1>>)

BenchmarkDates == {sp500[i].date : i \in DOMAIN sp500}

BenchmarkReturnAt(d) ==
    sp500[CHOOSE i \in DOMAIN sp500 : sp500[i].date = d].monthly_return

AlignedDates ==
    {d \in FrameDates(prices) \cap BenchmarkDates : ~IsNaN(BenchmarkReturnAt(d))}

\* C8: benchmark PnL of a month is 20 times its benchmark return; the
\* aligned series, the cumulative PnL (running sums), total PnL (the last
\* running sum), total return (sum of the monthly returns) and
\* outperformance (strategy minus benchmark total return) are over exactly the
\* months in both series with a benchmark return present.
C8_BenchmarkAndAggregates ==
    /\ pc = "align" =>
          \A d \in DOMAIN series.benchmark_pnl :
              RatEq(series.benchmark_pnl[d], RatMulInt(20, BenchmarkReturnAt(d)))
    /\ pc = "done" =>
          /\ report.written
          /\ DOMAIN report.strategy_returns = AlignedDates
          /\ DOMAIN report.strategy_pnl = AlignedDates
          /\ DOMAIN report.benchmark_returns = AlignedDates
          /\ DOMAIN report.benchmark_pnl = AlignedDates
          /\ DOMAIN report.strategy_cumulative_pnl = AlignedDates
          /\ DOMAIN report.benchmark_cumulative_pnl = AlignedDates
          /\ \A d \in AlignedDates :
                /\ RatEq(report.benchmark_returns[d], BenchmarkReturnAt(d))
                /\ RatEq(report.benchmark_pnl[d],
                         RatMulInt(20, BenchmarkReturnAt(d)))
                /\ RatEq(report.strategy_pnl[d], Total(FutureOf, Selected(d)))
                /\ RatEq(report.strategy_cumulative_pnl[d],
                         Total(report.strategy_pnl,
                               {e \in AlignedDates : e <= d}))
                /\ RatEq(report.benchmark_cumulative_pnl[d],
                         Total(report.benchmark_pnl,
                               {e \in AlignedDates : e <= d}))
          /\ RatEq(report.strategy_total_pnl,
                   Total(report.strategy_pnl, AlignedDates))
          /\ RatEq(report.benchmark_total_pnl,
                   Total(report.benchmark_pnl, AlignedDates))
          /\ RatEq(report.strategy_total_return,
                   Total(report.strategy_returns, AlignedDates))
          /\ RatEq(report.benchmark_total_return,
                   Total(report.benchmark_returns, AlignedDates))
          /\ RatEq(report.outperformance,
                   RatSub(Total(report.strategy_returns, AlignedDates),
                          Total(report.benchmark_returns, AlignedDates)))

\* a finished backtest with a month only in the strategy series, a month
\* only in the benchmark series, and fewer records selected than present
C8_Witness ==
    /\ pc = "done"
    /\ report.written
    /\ FrameDates(prices) \ AlignedDates # {}
    /\ \E d \in BenchmarkDates \ FrameDates(prices) : ~IsNaN(BenchmarkReturnAt(d))
    /\ \E d \in AlignedDates : Selected(d) # Group(d)

\* C10: every month of the table create_signal returns has min(N, 20) >= 1
\* records selected, so no per-month strategy return of backtest is a
\* division by zero.
C10_SelectedCountPositive ==
    /\ pc \in {"backtest", "align"} =>
          \A d \in FrameDates(prices) :
              /\ Cardinality(Selected(d)) >= 1
              /\ Cardinality(Selected(d)) =
                    IF Cardinality(Group(d)) < 20 THEN Cardinality(Group(d)) ELSE 20
    /\ pc = "align" =>
          \A d \in DOMAIN series.strategy_returns :
              ~IsNaN(series.strategy_returns[d])

\* the per-month returns are computed for a month of one record and a month
\* of more than 20
C10_Witness ==
    /\ pc = "align"
    /\ \E d \in DOMAIN series.strategy_returns : Cardinality(Group(d)) = 1
    /\ \E d \in DOMAIN series.strategy_returns : Cardinality(Group(d)) > 20

---------------------------------------------------------------------------
(* Property of main, checked under Spec *)

IsPrefix(s, t) == Len(s) <= Len(t) /\ \A i \in DOMAIN s : s[i] = t[i]

\* C9: with a required file missing the run aborts with no step run and no
\* result written; with both files present the steps run once each in the
\* order load, preprocessing, create_signal, backtest.
C9_MainControlFlow ==
    /\ (~prices_exists \/ ~sp500_exists) =>
          /\ pc \in {"check_prices", "check_sp500", "aborted"}
          /\ log = <<>>
          /\ prices = <<>> /\ sp500 = <<>>
          /\ ~report.written
    /\ (prices_exists /\ sp500_exists) => pc # "aborted"
    /\ IsPrefix(log, <<"load", "preprocessing", "create_signal", "backtest">>)
    /\ pc \in {"done", "raised"} =>
          log = <<"load", "preprocessing", "create_signal", "backtest">>
    /\ report.written => pc = "done"

\* the prices file exists, the benchmark file does not, and the run has ended
C9_Witness ==
    /\ pc = "aborted"
    /\ prices_exists
    /\ ~sp500_exists
    /\ log = <<>>

=============================================================================
